---- MODULE Spec2Model ----
(***************************************************************************)
(* Model of logseq-plugin-block-to-page: the helpers of util.ts (property  *)
(* line scanner, property extractor, deep merge, serializer) and the       *)
(* conversion pipeline main() of index.ts.                                 *)
(*                                                                         *)
(* Strings are sequences of one-character strings, so that split, join,    *)
(* the property-line regular expression and the key normalisation are      *)
(* computed character by character.  Indices of lines are 0-based, as in   *)
(* the source.                                                             *)
(***************************************************************************)
EXTENDS Integers, Sequences, FiniteSets, TLC

VARIABLES
  \* ---- scanner / extractor harness (util.ts applied to one block) ----
  scanPc,        \* "input" | "scanned" | "extracted" | "removed"
  scanBlock,     \* the block: [content, properties]
  scanFirst,     \* result of getFirstPropertyLine
  scanLast,      \* result of getLastPropertyLine
  scanProps,     \* result of getPropertiesFromBlockContent
  scanLooked,    \* the formatted keys looked up in block.properties
  scanKept,      \* result of removeProperties
  scanText,      \* formatPropertiesString of scanProps
  scanAgain,     \* getPropertiesFromBlockContent of a block with content scanText
  \* ---- deep merge harness (mergeObjects applied to drawn mappings) ----
  mergePc,       \* "input" | "folding" | "done"
  mergeTarget,   \* the target mapping, as first passed
  mergeSources,  \* the trailing source mappings
  mergeAll,      \* result of mergeObjects(target, s1, ..., sn)
  mergeAcc,      \* accumulator of the one-source-at-a-time calls
  mergePrev,     \* the accumulator before the last one-source call
  mergeIdx,      \* number of sources merged one at a time so far
  mergeHeap,     \* the objects and arrays of target and sources, as mutated in place
  mergeRoots,    \* the references of the target and of the sources, in this order
  \* ---- the conversion main(blockId) of index.ts and the document store ----
  pc,            \* the store call main() is at, or "done"
  settings,      \* logseq.settings
  stSrc,         \* store: the source block
  stPage,        \* store: the page named by the source block's first line
  stBlock,       \* store: the blocks of the page, by uuid
  src0,          \* the source block as the store held it when main() started
  srcBlock,      \* local: srcBlock
  allLines,      \* local: allLines
  firstLine,     \* local: firstLine
  pageBlock,     \* local: pageBlock ([uuid, content, properties]; uuid "" is null)
  propsCount,    \* local: propsCount
  newBlockContent, \* local: newBlockContent
  targetBlock,   \* local: targetBlock ([uuid, content]; uuid "" is null)
  targetUUID,    \* local: targetUUID
  loopI,         \* local: the loop index i
  pageProps,     \* local: pageProps of the page-tags step
  tags,          \* local: tags
  refsPending,   \* the getPage calls of Promise.all (line 92) not yet returned
  waiter,        \* what the polling loop last observed, and whether it accepted
  calls,         \* the mutating store calls issued so far, in order
  msg            \* the message shown by logseq.App.showMsg, "" if none

scanVars ==
  <<scanPc, scanBlock, scanFirst, scanLast, scanProps, scanLooked, scanKept, scanText,
    scanAgain>>

mergeVars ==
  <<mergePc, mergeTarget, mergeSources, mergeAll, mergeAcc, mergePrev, mergeIdx, mergeHeap,
    mergeRoots>>

mainVars ==
  <<pc, settings, stSrc, stPage, stBlock, src0, srcBlock, allLines, firstLine, pageBlock,
    propsCount, newBlockContent, targetBlock, targetUUID, loopI, pageProps, tags,
    refsPending, waiter, calls, msg>>

vars == <<scanVars, mergeVars, mainVars>>

\* what the steps of one harness leave alone: the variables of the others
scanOthers == <<mergeVars, mainVars>>
mergeOthers == <<scanVars, mainVars>>
mainOthers == <<scanVars, mergeVars>>

(***************************************************************************)
(* Bounds of the model.                                                    *)
(***************************************************************************)
MaxLines == 3
MaxSources == 2
MaxChildren == 3
MaxExtraRefs == 1

(***************************************************************************)
(* F applied to the value of e.  TLC evaluates the arguments of operators  *)
(* by name; binding e as the element of a set evaluates it once.           *)
(***************************************************************************)
Apply(e, F(_)) == CHOOSE r \in {F(x) : x \in {e}} : TRUE
Apply2(e1, e2, F(_, _)) == CHOOSE r \in {F(x, y) : x \in {e1}, y \in {e2}} : TRUE
Apply3(e1, e2, e3, F(_, _, _)) ==
  CHOOSE r \in {F(x, y, z) : x \in {e1}, y \in {e2}, z \in {e3}} : TRUE

(***************************************************************************)
(* JavaScript values.                                                      *)
(***************************************************************************)
Undefined == [t |-> "undefined"]
Null == [t |-> "null"]
Str(s) == [t |-> "string", s |-> s]
Num(n) == [t |-> "number", n |-> n]
Arr(a) == [t |-> "array", a |-> a]
Obj(o) == [t |-> "object", o |-> o]

IsArray(v) == v.t = "array"
\* typeof v === 'object' (true of null and of arrays too)
TypeofObject(v) == v.t \in {"object", "array", "null"}
\* JavaScript truthiness
Truthy(v) ==
  CASE v.t = "undefined" -> FALSE
    [] v.t = "null" -> FALSE
    [] v.t = "string" -> v.s # <<>>
    [] v.t = "number" -> v.n # 0
    [] OTHER -> TRUE

LowerLetters ==
  {"a","b","c","d","e","f","g","h","i","j","k","l","m",
   "n","o","p","q","r","s","t","u","v","w","x","y","z"}
UpperLetters == {"A", "B", "T"}
DigitSeq == <<"0","1","2","3","4","5","6","7","8","9">>
Digits == {DigitSeq[i] : i \in 1..10}
DigitVal(c) == (CHOOSE i \in 1..10 : DigitSeq[i] = c) - 1
\* the regular expression classes \w and \s over the model's alphabet
WordChars == LowerLetters \cup UpperLetters \cup Digits \cup {"_"}
Whitespace == {" "}
NL == "\n"

\* String.prototype.toLowerCase, character by character
LowerChar(c) ==
  CASE c = "A" -> "a"
    [] c = "B" -> "b"
    [] c = "T" -> "t"
    [] OTHER -> c
toLowerCase(s) == [i \in 1..Len(s) |-> LowerChar(s[i])]

RECURSIVE DigitsToNum(_)
DigitsToNum(s) ==
  IF s = <<>> THEN 0
  ELSE 10 * DigitsToNum(SubSeq(s, 1, Len(s) - 1)) + DigitVal(s[Len(s)])

RECURSIVE NumToStr(_)
NumToStr(n) ==
  IF n < 10 THEN <<DigitSeq[n + 1]>>
  ELSE NumToStr(n \div 10) \o <<DigitSeq[(n % 10) + 1]>>

\* A property name that is a canonical array index: JavaScript objects
\* enumerate such keys first, in ascending numeric order.
IsIndexKey(k) ==
  /\ k # <<>>
  /\ \A i \in 1..Len(k) : k[i] \in Digits
  /\ (k[1] = "0" => Len(k) = 1)

(***************************************************************************)
(* JavaScript objects: a sequence of entries [k, v] with distinct keys, in *)
(* the order Object.keys / Object.entries enumerate them.                  *)
(***************************************************************************)
HasKey(o, k) == Apply2(o, k, LAMBDA oo, kk : \E i \in 1..Len(oo) : oo[i].k = kk)
ObjGet(o, k) ==
  Apply2(o, k, LAMBDA oo, kk :
    IF \E i \in 1..Len(oo) : oo[i].k = kk
    THEN oo[CHOOSE i \in 1..Len(oo) : oo[i].k = kk].v
    ELSE Undefined)
ObjKeys(o) == Apply(o, LAMBDA oo : [i \in 1..Len(oo) |-> oo[i].k])

\* the position at which a new index key k is enumerated in o
IndexKeysBefore(o, k) ==
  Cardinality({i \in 1..Len(o) : IsIndexKey(o[i].k) /\ DigitsToNum(o[i].k) < DigitsToNum(k)})

\* o[k] = v
ObjSet(o, k, v) ==
  Apply3(o, k, v, LAMBDA oo, kk, vv :
    IF \E i \in 1..Len(oo) : oo[i].k = kk
    THEN [i \in 1..Len(oo) |-> IF oo[i].k = kk THEN [k |-> kk, v |-> vv] ELSE oo[i]]
    ELSE IF IsIndexKey(kk)
         THEN Apply(IndexKeysBefore(oo, kk), LAMBDA before :
                SubSeq(oo, 1, before) \o <<[k |-> kk, v |-> vv]>>
                  \o SubSeq(oo, before + 1, Len(oo)))
         ELSE Append(oo, [k |-> kk, v |-> vv]))

\* Object.fromEntries(entries)
RECURSIVE FromEntries(_)
FromEntries(entries) ==
  Apply(entries, LAMBDA es :
    IF es = <<>> THEN <<>>
    ELSE ObjSet(FromEntries(SubSeq(es, 1, Len(es) - 1)), es[Len(es)].k, es[Len(es)].v))

(***************************************************************************)
(* Array and string primitives.                                            *)
(***************************************************************************)
\* a negative or overlong index of slice, brought into 0..n
SliceIndex(n, at) ==
  IF at < 0 THEN (IF n + at < 0 THEN 0 ELSE n + at) ELSE (IF at > n THEN n ELSE at)

\* Array.prototype.slice(start, end)
Slice(seq, start, end) ==
  Apply3(seq, start, end, LAMBDA a, from, to :
    SubSeq(a, SliceIndex(Len(a), from) + 1, SliceIndex(Len(a), to)))

\* Array.prototype.findIndex: 0-based, -1 when no element satisfies P
FindIndex(seq, P(_)) ==
  Apply(seq, LAMBDA a :
    IF \E i \in 1..Len(a) : P(a[i])
    THEN (CHOOSE i \in 1..Len(a) : P(a[i]) /\ \A j \in 1..(i - 1) : ~P(a[j])) - 1
    ELSE -1)

SelectSeqBy(seq, P(_)) == SelectSeq(seq, P)

\* String.prototype.split("\n")
RECURSIVE Split(_)
Split(s) ==
  Apply(s, LAMBDA str :
    IF \E i \in 1..Len(str) : str[i] = NL
    THEN Apply(CHOOSE i \in 1..Len(str) : str[i] = NL /\ \A j \in 1..(i - 1) : str[j] # NL,
               LAMBDA i : <<SubSeq(str, 1, i - 1)>> \o Split(SubSeq(str, i + 1, Len(str))))
    ELSE <<str>>)

\* Array.prototype.join("\n") on an array of strings
RECURSIVE Join(_)
Join(lines) ==
  Apply(lines, LAMBDA ls :
    IF ls = <<>> THEN <<>>
    ELSE IF Len(ls) = 1 THEN ls[1]
    ELSE ls[1] \o <<NL>> \o Join(Tail(ls)))

\* first position >= i of s that is not in class S (Len(s) + 1 if none)
SkipWhile(s, i, S) ==
  Apply2(s, i, LAMBDA str, from :
    CHOOSE j \in from..(Len(str) + 1) :
      /\ \A k \in from..(j - 1) : str[k] \in S
      /\ (j = Len(str) + 1 \/ str[j] \notin S))

\* s without its trailing whitespace
RECURSIVE TrimRight(_)
TrimRight(s) ==
  Apply(s, LAMBDA str :
    IF str # <<>> /\ str[Len(str)] \in Whitespace
    THEN TrimRight(SubSeq(str, 1, Len(str) - 1))
    ELSE str)

\* String.prototype.trim
RECURSIVE TrimLeft(_)
TrimLeft(s) ==
  Apply(s, LAMBDA str :
    IF str # <<>> /\ str[1] \in Whitespace THEN TrimLeft(Tail(str)) ELSE str)
Trim(s) == TrimLeft(TrimRight(s))

\* 1-based position of the first occurrence of pat in s, 0 if none
IndexOf(s, pat) ==
  Apply2(s, pat, LAMBDA str, p :
    LET at(q) == \A k \in 1..Len(p) : str[q + k - 1] = p[k]
        last == Len(str) - Len(p) + 1
    IN IF \E q \in 1..last : at(q)
       THEN CHOOSE q \in 1..last : at(q) /\ \A r \in 1..(q - 1) : ~at(r)
       ELSE 0)

\* s.replace(pat, rep) with a string pattern: the first occurrence only
ReplaceFirst(s, pat, rep) ==
  Apply3(s, pat, IndexOf(s, pat), LAMBDA str, pt, p :
    IF p = 0 THEN str
    ELSE SubSeq(str, 1, p - 1) \o rep \o SubSeq(str, p + Len(pt), Len(str)))

\* `${value}`: the string a template literal makes of a value
RECURSIVE ToStr(_)
RECURSIVE JoinComma(_)
JoinComma(a) ==
  Apply(a, LAMBDA arr :
    IF arr = <<>> THEN <<>>
    ELSE Apply(IF arr[1].t \in {"null", "undefined"} THEN <<>> ELSE ToStr(arr[1]),
               LAMBDA e : IF Len(arr) = 1 THEN e ELSE e \o <<",">> \o JoinComma(Tail(arr))))
ToStr(v) ==
  Apply(v, LAMBDA val :
    CASE val.t = "string" -> val.s
      [] val.t = "number" -> NumToStr(val.n)
      [] val.t = "undefined" -> <<"u", "n", "d", "e", "f", "i", "n", "e", "d">>
      [] val.t = "null" -> <<"n", "u", "l", "l">>
      [] val.t = "array" -> JoinComma(val.a)
      [] OTHER -> <<"[", "o", "b", "j", "e", "c", "t", " ", "O", "b", "j", "e", "c", "t", "]">>)

(***************************************************************************)
(* util.ts                                                                 *)
(***************************************************************************)
\* the match of the regular expression whose key starts at k0 and ends
\* before k1
RegexMatch(line, k0, k1) ==
  IF /\ k1 > k0
     /\ k1 + 2 <= Len(line)
     /\ line[k1] = ":"
     /\ line[k1 + 1] = ":"
     /\ line[k1 + 2] \in Whitespace
  THEN [matched |-> TRUE,
        key |-> SubSeq(line, k0, k1 - 1),
        textValue |-> TrimRight(SubSeq(line, SkipWhile(line, k1 + 2, Whitespace), Len(line)))]
  ELSE [matched |-> FALSE, key |-> <<>>, textValue |-> <<>>]

\* line.match(/^\s*([\w]+)::\s+(.*?)\s*?$/)
propertyLineRegex(line) ==
  Apply(line, LAMBDA l :
    Apply(SkipWhile(l, 1, Whitespace), LAMBDA k0 :
      Apply(SkipWhile(l, k0, WordChars), LAMBDA k1 : RegexMatch(l, k0, k1))))

IsPropertyLine(line) == propertyLineRegex(line).matched
NotPropertyLine(line) == ~propertyLineRegex(line).matched

getFirstPropertyLine(lines) ==
  Apply2(lines, FindIndex(lines, IsPropertyLine), LAMBDA ls, firstPropertyLine :
    IF firstPropertyLine = -1 THEN Len(ls) ELSE firstPropertyLine)

getLastPropertyLine(lines, firstPropLine) ==
  Apply2(lines, FindIndex(Slice(lines, firstPropLine, Len(lines)), NotPropertyLine),
         LAMBDA ls, lastPropLine :
           (IF lastPropLine = -1 THEN Len(ls) ELSE lastPropLine) - 1)

\* key.toLowerCase().replace(/[^a-z]/, ""): the pattern has no g flag, so only
\* the first character outside a-z is removed
formattedKey(key) ==
  Apply(toLowerCase(key), LAMBDA low :
    Apply(SkipWhile(low, 1, LowerLetters), LAMBDA i :
      IF i > Len(low) THEN low ELSE SubSeq(low, 1, i - 1) \o SubSeq(low, i + 1, Len(low))))

\* the lines of the property range that match, as regex matches
PropertyMatches(block) ==
  Apply(Split(block.content), LAMBDA lines :
    Apply(getFirstPropertyLine(lines), LAMBDA firstPropertyLine :
      Apply(getLastPropertyLine(lines, firstPropertyLine), LAMBDA lastPropertyLine :
        Apply(Slice(lines, firstPropertyLine, lastPropertyLine + 1), LAMBDA range :
          SelectSeqBy([i \in 1..Len(range) |-> propertyLineRegex(range[i])],
                      LAMBDA m : m.matched)))))

getPropertiesFromBlockContent(block) ==
  Apply2(block, PropertyMatches(block), LAMBDA b, ms :
    FromEntries([i \in 1..Len(ms) |->
      [k |-> ms[i].key, v |-> ObjGet(b.properties, formattedKey(ms[i].key))]]))

\* the keys getPropertiesFromBlockContent looks up in block.properties
LookedUpKeys(block) ==
  Apply(PropertyMatches(block), LAMBDA ms : [i \in 1..Len(ms) |-> formattedKey(ms[i].key)])

removeProperties(lines) ==
  Apply2(lines, getFirstPropertyLine(lines), LAMBDA ls, firstPropertyLine :
    Slice(ls, 0, firstPropertyLine))

\* { ...v }: the own entries of an object, nothing for null or undefined
Spread(v) == IF v.t = "object" THEN v.o ELSE <<>>

RECURSIVE mergeObjects(_, _)
RECURSIVE MergeKeys(_, _, _)

\* the value left in target[key] by one pass of the loop body, where tv is
\* target[key] before and sv is source[key]
MergedValueReplace(tv, sv) == sv
MergedValue(tv, sv) ==
  Apply2(tv, sv, LAMBDA t, s :
    IF IsArray(s)
    THEN (IF IsArray(t) THEN Arr(t.a \o s.a) ELSE s)
    ELSE IF Truthy(s) /\ TypeofObject(s) /\ ~IsArray(s)
         THEN (IF TypeofObject(t) /\ ~IsArray(t)
               THEN Obj(mergeObjects(Spread(t), <<s>>))
               ELSE s)
         ELSE s)

\* the for loop over Object.keys(source), after its first n keys
MergeKeys(target, source, n) ==
  Apply3(target, source, n, LAMBDA t, s, m :
    IF m = 0 THEN t
    ELSE Apply(MergeKeys(t, s, m - 1), LAMBDA merged :
           ObjSet(merged, s[m].k, MergedValue(ObjGet(merged, s[m].k), s[m].v))))

\* mergeObjects(target, source, ...args), with sources = <<source, ...args>>
mergeObjectsFirstOnly(target, sources) ==
  IF sources = <<>> \/ ~Truthy(Head(sources)) THEN target
  ELSE MergeKeys(target, Head(sources).o, Len(Head(sources).o))
mergeObjects(target, sources) ==
  Apply2(target, sources, LAMBDA t, ss :
    IF ss = <<>> \/ ~Truthy(Head(ss)) THEN t
    ELSE mergeObjects(MergeKeys(t, Head(ss).o, Len(Head(ss).o)), Tail(ss)))

(***************************************************************************)
(* mergeObjects on a heap.  JavaScript objects and arrays are references:  *)
(* target[key] = source[key] makes the target share the source's nested    *)
(* object, and mergeObjects writes into its first argument.  A heap is a   *)
(* sequence of cells, a reference the index of a cell; a cell holds the    *)
(* entries of an object or the elements of an array, each a primitive      *)
(* value or a reference.                                                   *)
(***************************************************************************)
Ref(r) == [t |-> "ref", r |-> r]
IsRef(v) == v.t = "ref"
ObjCell(o) == [t |-> "object", o |-> o, a |-> <<>>]
ArrCell(a) == [t |-> "array", o |-> <<>>, a |-> a]

\* Array.isArray(v), typeof v === 'object' and truthiness of a heap value
IsArrayRef(h, v) == IsRef(v) /\ h[v.r].t = "array"
IsObjectRef(h, v) == IsRef(v) /\ h[v.r].t = "object"
TypeofObjectRef(v) == IsRef(v) \/ v.t = "null"
TruthyRef(v) == IsRef(v) \/ Truthy(v)

RECURSIVE Alloc(_, _)
RECURSIVE AllocSeq(_, _)
\* the values of a sequence put on the heap, first to last
AllocSeq(h, vals) ==
  IF vals = <<>> THEN [h |-> h, vs |-> <<>>]
  ELSE Apply(AllocSeq(h, SubSeq(vals, 1, Len(vals) - 1)), LAMBDA p :
         Apply(Alloc(p.h, vals[Len(vals)]), LAMBDA q :
           [h |-> q.h, vs |-> Append(p.vs, q.v)]))
\* value v put on the heap: the nested objects and arrays first, then v
Alloc(h, v) ==
  CASE v.t = "object" ->
         Apply(AllocSeq(h, [i \in 1..Len(v.o) |-> v.o[i].v]), LAMBDA p :
           [h |-> Append(p.h, ObjCell([i \in 1..Len(v.o) |-> [k |-> v.o[i].k, v |-> p.vs[i]]])),
            v |-> Ref(Len(p.h) + 1)])
    [] v.t = "array" ->
         Apply(AllocSeq(h, v.a), LAMBDA p :
           [h |-> Append(p.h, ArrCell(p.vs)), v |-> Ref(Len(p.h) + 1)])
    [] OTHER -> [h |-> h, v |-> v]

\* the value a heap value stands for
RECURSIVE Read(_, _)
Read(h, v) ==
  IF ~IsRef(v) THEN v
  ELSE IF h[v.r].t = "object"
       THEN Obj([i \in 1..Len(h[v.r].o) |->
                   [k |-> h[v.r].o[i].k, v |-> Read(h, h[v.r].o[i].v)]])
       ELSE Arr([i \in 1..Len(h[v.r].a) |-> Read(h, h[v.r].a[i])])

\* the heap of a merge: the target, then the sources in order
\* h the heap, vs the references of the target and of the sources
Heap0(target, sources) == AllocSeq(<<>>, <<Obj(target)>> \o sources)

\* target[key] = v
SetKey(h, target, key, v) == [h EXCEPT ![target].o = ObjSet(@, key, v)]

\* { ...tv }: a new object with the entries of tv, which share tv's values
SpreadAlias(h, tv) ==
  IF IsObjectRef(h, tv) THEN [h |-> h, r |-> tv.r]
  ELSE [h |-> Append(h, ObjCell(<<>>)), r |-> Len(h) + 1]
SpreadNew(h, tv) ==
  [h |-> Append(h, ObjCell(IF IsObjectRef(h, tv) THEN h[tv.r].o ELSE <<>>)),
   r |-> Len(h) + 1]

RECURSIVE mergeObjectsInPlace(_, _, _)
RECURSIVE MergeKeysInPlace(_, _, _, _, _)

\* one pass of the loop body for key: the heap after target[key] is assigned
MergeKeyInPlace(h, target, source, key) ==
  Apply2(ObjGet(h[target].o, key), ObjGet(h[source].o, key), LAMBDA tv, sv :
    IF IsArrayRef(h, sv)
    THEN IF IsArrayRef(h, tv)
         THEN SetKey(Append(h, ArrCell(h[tv.r].a \o h[sv.r].a)), target, key, Ref(Len(h) + 1))
         ELSE SetKey(h, target, key, sv)
    ELSE IF TruthyRef(sv) /\ TypeofObjectRef(sv) /\ ~IsArrayRef(h, sv)
         THEN IF TypeofObjectRef(tv) /\ ~IsArrayRef(h, tv)
              THEN Apply(SpreadNew(h, tv), LAMBDA c :
                     SetKey(mergeObjectsInPlace(c.h, c.r, <<sv>>), target, key, Ref(c.r)))
              ELSE SetKey(h, target, key, sv)
         ELSE SetKey(h, target, key, sv))

\* the for loop over keys = Object.keys(source), after its first n keys
MergeKeysInPlace(h, target, source, keys, n) ==
  IF n = 0 THEN h
  ELSE Apply(MergeKeysInPlace(h, target, source, keys, n - 1), LAMBDA h1 :
         MergeKeyInPlace(h1, target, source, keys[n]))

\* mergeObjects(target, source, ...args) on the heap: the heap it leaves; the
\* value it returns is target
mergeObjectsInPlace(h, target, sources) ==
  Apply(sources, LAMBDA ss :
    IF ss = <<>> \/ ~TruthyRef(Head(ss)) THEN h
    ELSE mergeObjectsInPlace(
           MergeKeysInPlace(h, target, Head(ss).r, ObjKeys(h[Head(ss).r].o),
                            Len(h[Head(ss).r].o)),
           target, Tail(ss)))

\* `${key}:: ${value}`
PropertyLineNoSpace(key, value) == key \o <<":", ":">> \o ToStr(value)
PropertyLine(key, value) == key \o <<":", ":", " ">> \o ToStr(value)

formatPropertiesString(props) ==
  Apply(props, LAMBDA ps : Join([n \in 1..Len(ps) |-> PropertyLine(ps[n].k, ps[n].v)]))

(***************************************************************************)
(* Scanner / extractor harness: one block, drawn from bounded sets, to     *)
(* which the functions of util.ts are applied in the order main() applies  *)
(* them.                                                                   *)
(***************************************************************************)
LineTitle == <<"t">>
LineBlank == <<>>
LineA == <<"a", ":", ":", " ", "1">>
LineMixed == <<"A", "_", "_", "b", ":", ":", " ", "2">>
LineNoSpace == <<"b", ":", ":", "1">>
LineIndent == <<" ", "b", ":", ":", " ">>
LineIndex == <<"1", ":", ":", " ", "x">>
ScanLineSet == {LineTitle, LineBlank, LineA, LineMixed, LineNoSpace, LineIndent, LineIndex}

\* resolved property mappings the store may hold for a block
ResolvedNone == <<>>
ResolvedAll ==
  <<[k |-> <<"a">>, v |-> Str(<<"1">>)],
    [k |-> <<"a", "b">>, v |-> Str(<<"2">>)],
    [k |-> <<"b">>, v |-> Arr(<<Str(<<"x">>), Str(<<"y">>)>>)]>>
ResolvedPartial ==
  <<[k |-> <<"a", "_", "b">>, v |-> Str(<<"3">>)],
    [k |-> <<>>, v |-> Num(7)]>>
\* a resolved value that holds a line break
ResolvedMultiline ==
  <<[k |-> <<"a">>, v |-> Str(<<"1", "\n", "2">>)],
    [k |-> <<"a", "b">>, v |-> Str(<<"2">>)]>>
ScanResolvedSet == {ResolvedNone, ResolvedAll, ResolvedPartial, ResolvedMultiline}

ScanContentSet ==
  {Join(ls) : ls \in UNION {[1..n -> ScanLineSet] : n \in 1..MaxLines}}

ScanInit ==
  /\ scanPc = "input"
  /\ scanBlock \in [content : ScanContentSet, properties : ScanResolvedSet]
  /\ scanFirst = 0
  /\ scanLast = 0
  /\ scanProps = <<>>
  /\ scanLooked = <<>>
  /\ scanKept = <<>>
  /\ scanText = <<>>
  /\ scanAgain = <<>>
  \* the merge harness is idle
  /\ mergePc = "idle"
  /\ mergeTarget = <<>>
  /\ mergeSources = <<>>
  /\ mergeAll = <<>>
  /\ mergeAcc = <<>>
  /\ mergePrev = <<>>
  /\ mergeIdx = 0
  /\ mergeHeap = <<>>
  /\ mergeRoots = <<>>
  \* main() is not running
  /\ pc = "idle"
  /\ settings = [allowWithoutChildren |-> FALSE, moveBlockPropertiesToPage |-> FALSE,
                 createPageTags |-> FALSE]
  /\ stSrc = [exists |-> FALSE, content |-> <<>>, properties |-> <<>>,
              propertiesOrder |-> 0, children |-> <<>>, refs |-> <<>>]
  /\ stPage = [exists |-> FALSE, tree |-> <<>>, properties |-> <<>>]
  /\ stBlock = <<>>
  /\ src0 = stSrc
  /\ srcBlock = stSrc
  /\ allLines = <<>>
  /\ firstLine = <<>>
  /\ pageBlock = [uuid |-> "", content |-> <<>>, properties |-> <<>>]
  /\ propsCount = 0
  /\ newBlockContent = <<>>
  /\ targetBlock = [uuid |-> "", content |-> <<>>]
  /\ targetUUID = ""
  /\ loopI = 0
  /\ pageProps = <<>>
  /\ tags = <<>>
  /\ refsPending = {}
  /\ waiter = [last |-> 0, rejected |-> FALSE, accepted |-> FALSE]
  /\ calls = <<>>
  /\ msg = ""

\* getFirstPropertyLine, then getLastPropertyLine on its result
ScanRange ==
  /\ scanPc = "input"
  /\ scanFirst' = getFirstPropertyLine(Split(scanBlock.content))
  /\ scanLast' = getLastPropertyLine(Split(scanBlock.content), scanFirst')
  /\ scanPc' = "scanned"
  /\ UNCHANGED <<scanBlock, scanProps, scanLooked, scanKept, scanText, scanAgain, scanOthers>>

ScanExtract ==
  /\ scanPc = "scanned"
  /\ scanProps' = getPropertiesFromBlockContent(scanBlock)
  /\ scanLooked' = LookedUpKeys(scanBlock)
  /\ scanPc' = "extracted"
  /\ UNCHANGED <<scanBlock, scanFirst, scanLast, scanKept, scanText, scanAgain, scanOthers>>

ScanRemove ==
  /\ scanPc = "extracted"
  /\ scanKept' = removeProperties(Split(scanBlock.content))
  /\ scanPc' = "removed"
  /\ UNCHANGED <<scanBlock, scanFirst, scanLast, scanProps, scanLooked, scanText, scanAgain,
               scanOthers>>

\* formatPropertiesString of the extracted mapping, and the extractor again
\* on a block with that text and the same resolved properties
ScanRoundTrip ==
  /\ scanPc = "removed"
  /\ scanText' = formatPropertiesString(scanProps)
  /\ scanAgain' = getPropertiesFromBlockContent(
                     [content |-> scanText', properties |-> scanBlock.properties])
  /\ scanPc' = "reparsed"
  /\ UNCHANGED <<scanBlock, scanFirst, scanLast, scanProps, scanLooked, scanKept, scanOthers>>

ScanNext == ScanRange \/ ScanExtract \/ ScanRemove \/ ScanRoundTrip


(***************************************************************************)
(* Claims about the scanner and the extractor.                             *)
(***************************************************************************)
ScanLines == Split(scanBlock.content)
\* 0-based line i of the scanned block
ScanLine(i) == ScanLines[i + 1]
ScanDone == scanPc \in {"scanned", "extracted", "removed", "reparsed"}
ExtractDone == scanPc \in {"extracted", "removed", "reparsed"}

\* index of the first line matching the property pattern, Len if none
FirstMatching(lines) ==
  IF \E i \in 0..(Len(lines) - 1) : IsPropertyLine(lines[i + 1])
  THEN CHOOSE i \in 0..(Len(lines) - 1) :
         /\ IsPropertyLine(lines[i + 1])
         /\ \A j \in 0..(i - 1) : ~IsPropertyLine(lines[j + 1])
  ELSE Len(lines)

\* index in lines of the last line of the unbroken run starting at first
RunEnd(lines, first) ==
  CHOOSE j \in (first - 1)..(Len(lines) - 1) :
    /\ \A i \in first..j : IsPropertyLine(lines[i + 1])
    /\ (j = Len(lines) - 1 \/ ~IsPropertyLine(lines[j + 2]))

\* C6: getFirstPropertyLine returns the index of the first property line
\* (lines.length if none) and getLastPropertyLine(lines, first) the index in
\* lines of the last line of the unbroken run of property lines starting at
\* first, for every position of first.
C6_ScannerRange ==
  ScanDone =>
    /\ scanFirst = FirstMatching(ScanLines)
    /\ scanLast = RunEnd(ScanLines, scanFirst)

\* the part of C6 the code satisfies: the first index, and the last index
\* when the run starts at line 0 or reaches the end of the lines
C6_RangeWhenRunAtStartOrToEnd ==
  ScanDone =>
    /\ scanFirst = FirstMatching(ScanLines)
    /\ (scanFirst = 0 \/ RunEnd(ScanLines, scanFirst) = Len(ScanLines) - 1)
         => scanLast = RunEnd(ScanLines, scanFirst)

\* a scanned block whose property run starts after line 0 and is interrupted
C6_RunInterruptedAfterTitle ==
  /\ ScanDone
  /\ scanFirst > 0
  /\ scanFirst < Len(ScanLines)
  /\ RunEnd(ScanLines, scanFirst) < Len(ScanLines) - 1

\* every character outside a-z removed
RECURSIVE LettersOnly(_)
LettersOnly(s) ==
  IF s = <<>> THEN <<>>
  ELSE IF Head(s) \in LowerLetters THEN <<Head(s)>> \o LettersOnly(Tail(s))
  ELSE LettersOnly(Tail(s))

\* first occurrences of the elements of a sequence, in order
RECURSIVE Dedup(_)
Dedup(s) ==
  IF s = <<>> THEN <<>>
  ELSE Apply(Dedup(SubSeq(s, 1, Len(s) - 1)), LAMBDA d :
         IF \E i \in 1..Len(d) : d[i] = s[Len(s)] THEN d ELSE Append(d, s[Len(s)]))

\* raw keys of the lines of the unbroken property run, in text order
RunKeys ==
  LET first == FirstMatching(ScanLines)
      last == RunEnd(ScanLines, first)
  IN Dedup([i \in 1..(last - first + 1) |-> propertyLineRegex(ScanLine(first + i - 1)).key])

\* C7: getPropertiesFromBlockContent returns a mapping whose keys are exactly
\* the raw keys of the property lines of the unbroken run, in text order, each
\* mapped to the resolved property stored under the key's normalized form.
C7_ExtractorResult ==
  ExtractDone =>
    /\ ObjKeys(scanProps) = RunKeys
    /\ \A i \in 1..Len(scanProps) :
         scanProps[i].v = ObjGet(scanBlock.properties, LettersOnly(toLowerCase(scanProps[i].k)))

\* an extracted block with at least two distinct property keys in its run
C7_TwoKeysExtracted ==
  /\ ExtractDone
  /\ Len(RunKeys) >= 2

\* C8: the key looked up in the resolved properties is the raw key lowercased
\* with every non-letter character removed.
C8_KeyNormalization ==
  ExtractDone =>
    LET ms == PropertyMatches(scanBlock)
    IN /\ Len(scanLooked) = Len(ms)
       /\ \A i \in 1..Len(ms) : scanLooked[i] = LettersOnly(toLowerCase(ms[i].key))

\* a key with two non-letter characters was looked up
C8_KeyWithTwoNonLetters ==
  /\ ExtractDone
  /\ \E i \in 1..Len(PropertyMatches(scanBlock)) :
       PropertyMatches(scanBlock)[i].key = <<"A", "_", "_", "b">>

\* no value of mapping M has a line break in its text
NoNewline(M) ==
  \A i \in 1..Len(M) : \A j \in 1..Len(ToStr(M[i].v)) : ToStr(M[i].v)[j] # NL

\* C11: for every mapping M the extractor produces whose values hold no line
\* break, the extractor applied to a block whose content is
\* formatPropertiesString(M), with the same resolved properties, gives M
\* again: same keys, same order, same values.
C11_RoundTrip ==
  (scanPc = "reparsed" /\ NoNewline(scanProps)) => scanAgain = scanProps

\* a round trip of a mapping with two keys, one of them an index key that
\* the mapping enumerates first
C11_TwoKeysRoundTrip ==
  /\ scanPc = "reparsed"
  /\ NoNewline(scanProps)
  /\ Len(scanProps) >= 2
  /\ IsIndexKey(scanProps[1].k)
  /\ scanAgain = scanProps

RemoveDone == scanPc \in {"removed", "reparsed"}

\* the lines outside the property range [first, last], in their order
OutsideRange(lines) ==
  LET first == FirstMatching(lines)
      last == RunEnd(lines, first)
  IN SubSeq(lines, 1, first) \o SubSeq(lines, last + 2, Len(lines))

\* C18: removeProperties removes only the lines of the property range
\* [first, last]; the lines before the first property line and the lines
\* after the end of the property run are kept, in their original order.
C18_ContentPreserved ==
  RemoveDone => scanKept = OutsideRange(ScanLines)

\* the part of C18 the code satisfies: the lines before the first property
\* line are kept, and nothing else is
C18_LinesBeforeKept ==
  RemoveDone => scanKept = SubSeq(ScanLines, 1, FirstMatching(ScanLines))

\* properties removed from a block with a line after its property run
C18_LineAfterRun ==
  /\ RemoveDone
  /\ FirstMatching(ScanLines) < Len(ScanLines)
  /\ RunEnd(ScanLines, FirstMatching(ScanLines)) < Len(ScanLines) - 1

(***************************************************************************)
(* Deep merge harness: a target and up to MaxSources sources, merged once  *)
(* in a single variadic call and once one source per call.                 *)
(***************************************************************************)
KeyA == <<"a">>
KeyB == <<"b">>
KeyX == <<"x">>
KeyY == <<"y">>
KeyZ == <<"z">>
Entry(k, v) == [k |-> k, v |-> v]

MergeValueSet ==
  { Num(1), Str(<<"s">>), Null,
    Arr(<<Num(1)>>), Arr(<<Num(2)>>),
    Obj(<<Entry(KeyX, Num(1))>>),
    Obj(<<Entry(KeyY, Num(2))>>),
    Obj(<<Entry(KeyX, Arr(<<Num(3)>>))>>),
    Obj(<<Entry(KeyX, Obj(<<Entry(KeyY, Num(1))>>))>>),
    Obj(<<Entry(KeyX, Obj(<<Entry(KeyZ, Num(2))>>)), Entry(KeyY, Num(5))>>) }

MergeMapSet ==
  {<<>>}
  \cup {<<Entry(KeyA, v)>> : v \in MergeValueSet}
  \cup { <<Entry(KeyB, Num(1))>>,
         <<Entry(KeyA, Num(1)), Entry(KeyB, Arr(<<Num(2)>>))>>,
         <<Entry(KeyB, Arr(<<Num(1)>>)), Entry(KeyA, Obj(<<Entry(KeyY, Num(2))>>))>> }

MergeInit ==
  /\ mergePc = "input"
  /\ mergeTarget \in MergeMapSet
  /\ mergeSources \in UNION {[1..n -> {Obj(m) : m \in MergeMapSet}] : n \in 0..MaxSources}
  /\ mergeAll = <<>>
  /\ mergeAcc = mergeTarget
  /\ mergePrev = <<>>
  /\ mergeIdx = 0
  /\ mergeHeap = Heap0(mergeTarget, mergeSources).h
  /\ mergeRoots = Heap0(mergeTarget, mergeSources).vs
  \* the scanner harness is idle
  /\ scanPc = "idle"
  /\ scanBlock = [content |-> <<>>, properties |-> <<>>]
  /\ scanFirst = 0
  /\ scanLast = 0
  /\ scanProps = <<>>
  /\ scanLooked = <<>>
  /\ scanKept = <<>>
  /\ scanText = <<>>
  /\ scanAgain = <<>>
  \* main() is not running
  /\ pc = "idle"
  /\ settings = [allowWithoutChildren |-> FALSE, moveBlockPropertiesToPage |-> FALSE,
                 createPageTags |-> FALSE]
  /\ stSrc = [exists |-> FALSE, content |-> <<>>, properties |-> <<>>,
              propertiesOrder |-> 0, children |-> <<>>, refs |-> <<>>]
  /\ stPage = [exists |-> FALSE, tree |-> <<>>, properties |-> <<>>]
  /\ stBlock = <<>>
  /\ src0 = stSrc
  /\ srcBlock = stSrc
  /\ allLines = <<>>
  /\ firstLine = <<>>
  /\ pageBlock = [uuid |-> "", content |-> <<>>, properties |-> <<>>]
  /\ propsCount = 0
  /\ newBlockContent = <<>>
  /\ targetBlock = [uuid |-> "", content |-> <<>>]
  /\ targetUUID = ""
  /\ loopI = 0
  /\ pageProps = <<>>
  /\ tags = <<>>
  /\ refsPending = {}
  /\ waiter = [last |-> 0, rejected |-> FALSE, accepted |-> FALSE]
  /\ calls = <<>>
  /\ msg = ""

\* mergeObjects(target, s1, ..., sn)
MergeVariadic ==
  /\ mergePc = "input"
  /\ mergeAll' = mergeObjects(mergeTarget, mergeSources)
  /\ mergePc' = "folding"
  /\ UNCHANGED <<mergeTarget, mergeSources, mergeAcc, mergePrev, mergeIdx, mergeHeap,
                 mergeRoots, mergeOthers>>

\* acc = mergeObjects(acc, s_i)
MergeOne ==
  /\ mergePc = "folding"
  /\ mergeIdx < Len(mergeSources)
  /\ mergePrev' = mergeAcc
  /\ mergeAcc' = mergeObjects(mergeAcc, <<mergeSources[mergeIdx + 1]>>)
  /\ mergeIdx' = mergeIdx + 1
  /\ mergeHeap' = mergeObjectsInPlace(mergeHeap, mergeRoots[1].r, <<mergeRoots[mergeIdx + 2]>>)
  /\ UNCHANGED <<mergePc, mergeTarget, mergeSources, mergeAll, mergeRoots, mergeOthers>>

MergeFinish ==
  /\ mergePc = "folding"
  /\ mergeIdx = Len(mergeSources)
  /\ mergePc' = "done"
  /\ UNCHANGED <<mergeTarget, mergeSources, mergeAll, mergeAcc, mergePrev, mergeIdx, mergeHeap,
                 mergeRoots, mergeOthers>>

MergeNext == MergeVariadic \/ MergeOne \/ MergeFinish


(***************************************************************************)
(* Claims about the deep merge.                                            *)
(***************************************************************************)
KeySet(o) == {o[i].k : i \in 1..Len(o)}
IsMapping(v) == v.t = "object"

RECURSIVE RuleHolds(_, _, _)
\* r is the value the per-key rule gives for existing value a and incoming m
ValueRuleHolds(a, m, r) ==
  CASE IsArray(m) /\ IsArray(a) -> r = Arr(a.a \o m.a)
    [] IsArray(m) /\ ~IsArray(a) -> r = m
    [] IsMapping(m) /\ IsMapping(a) -> IsMapping(r) /\ RuleHolds(a.o, m.o, r.o)
    [] IsMapping(m) /\ ~IsMapping(a) -> r = m
    [] OTHER -> r = m

\* mapping R is accumulator A with mapping M merged into it by the rule
RuleHolds(A, M, R) ==
  /\ KeySet(R) = KeySet(A) \cup KeySet(M)
  /\ \A k \in KeySet(M) : ValueRuleHolds(ObjGet(A, k), ObjGet(M, k), ObjGet(R, k))
  /\ \A k \in KeySet(A) \ KeySet(M) : ObjGet(R, k) = ObjGet(A, k)

\* C9: after mergeObjects(A, M) every key of M holds the value of the per-key
\* rule (arrays concatenated, mappings merged recursively, anything else
\* replaced by M's value) and every other key of A keeps its value.
C9_MergePerKeyRule ==
  mergeIdx >= 1 => RuleHolds(mergePrev, mergeSources[mergeIdx].o, mergeAcc)

\* a merge that concatenated two arrays
C9_ArraysConcatenated ==
  /\ mergeIdx >= 1
  /\ \E k \in KeySet(mergeSources[mergeIdx].o) :
       /\ IsArray(ObjGet(mergePrev, k))
       /\ IsArray(ObjGet(mergeSources[mergeIdx].o, k))
       /\ ObjGet(mergeAcc, k) = Arr(ObjGet(mergePrev, k).a \o ObjGet(mergeSources[mergeIdx].o, k).a)

\* a merge that merged two nested mappings with different keys
C9_NestedMappingsMerged ==
  /\ mergeIdx >= 1
  /\ \E k \in KeySet(mergeSources[mergeIdx].o) :
       /\ IsMapping(ObjGet(mergePrev, k))
       /\ IsMapping(ObjGet(mergeSources[mergeIdx].o, k))
       /\ KeySet(ObjGet(mergePrev, k).o) # KeySet(ObjGet(mergeSources[mergeIdx].o, k).o)
       /\ KeySet(ObjGet(mergeAcc, k).o) =
            KeySet(ObjGet(mergePrev, k).o) \cup KeySet(ObjGet(mergeSources[mergeIdx].o, k).o)

\* the cells of the heap that belong to the sources: every source mapping and
\* every array or nested mapping reachable from one
SourceCells(h0) == (mergeRoots[1].r + 1)..Len(h0)

\* C19: mergeObjects mutates only its first argument: after any sequence of
\* calls that reuse the accumulator as target, every source mapping and every
\* array or nested mapping reachable from a source has the contents it had
\* before the calls.
C19_SourcesUnchanged ==
  mergePc \in {"input", "folding", "done"} =>
    /\ Apply(Heap0(mergeTarget, mergeSources).h, LAMBDA h0 :
         \A c \in SourceCells(h0) : mergeHeap[c] = h0[c])
    /\ \A n \in 1..Len(mergeSources) : Read(mergeHeap, mergeRoots[n + 1]) = mergeSources[n]

\* the accumulator the calls leave in the target object is the mapping the
\* merge returns
C19_TargetHoldsResult ==
  mergePc \in {"input", "folding", "done"} =>
    Read(mergeHeap, mergeRoots[1]) = Obj(mergeAcc)

\* the target took a nested mapping of the first source by reference, and the
\* second call merged another mapping into that key
C19_SharedThenMerged ==
  /\ mergeIdx = 2
  /\ \E k \in KeySet(mergeSources[1].o) \cap KeySet(mergeSources[2].o) :
       /\ IsMapping(ObjGet(mergeSources[1].o, k))
       /\ IsMapping(ObjGet(mergeSources[2].o, k))
       /\ ~HasKey(mergeTarget, k)
       /\ ObjGet(mergeAcc, k) # ObjGet(mergeSources[1].o, k)

\* C10: mergeObjects(target, s1, ..., sn) equals merging s1..sn into target
\* one call at a time, left to right, for every n >= 0, and
\* mergeObjects(target) is target.
C10_MergeFold ==
  /\ mergePc = "done" => mergeAll = mergeAcc
  /\ (mergePc \in {"folding", "done"} /\ mergeSources = <<>>) => mergeAll = mergeTarget

\* a finished fold of two sources whose result depends on their order
C10_OrderMatters ==
  /\ mergePc = "done"
  /\ Len(mergeSources) = 2
  /\ mergeAll = mergeAcc
  /\ mergeAll # mergeObjects(mergeTarget, <<mergeSources[2], mergeSources[1]>>)

(***************************************************************************)
(* index.ts: the conversion main(blockId) against the document store.      *)
(*                                                                         *)
(* Each action is one awaited store call together with the synchronous     *)
(* code that runs up to the next awaited call.  Of the store calls only    *)
(* moveBlock is taken to fail, the one failure main() handles.  No other   *)
(* agent changes the document during the conversion; the store only        *)
(* brings the source block's references up to date after its text changed. *)
(***************************************************************************)
NoBlock == ""
SrcId == "src"
ChildIds == <<"c1", "c2", "c3", "c4", "c5">>
NoPageBlock == [uuid |-> NoBlock, content |-> <<>>, properties |-> <<>>]
NoTarget == [uuid |-> NoBlock, content |-> <<>>]
NullSrc == [exists |-> FALSE, content |-> <<>>, properties |-> <<>>,
            propertiesOrder |-> 0, children |-> <<>>, refs |-> <<>>]

KeyCollapsed == <<"c", "o", "l", "l", "a", "p", "s", "e", "d">>
KeyTags == <<"t", "a", "g", "s">>
True == [t |-> "boolean", b |-> TRUE]

LineLink == <<"[", "[", "t", "]", "]">>
LineB == <<"b", ":", ":", " ", "2">>
LineX == <<"x">>

\* source blocks: content, the store's resolved properties and the number of
\* properties the store lists in propertiesOrder
SrcFixtures ==
  { [content |-> Join(<<LineTitle>>), properties |-> <<>>, propertiesOrder |-> 0],
    [content |-> Join(<<LineTitle, LineA>>),
     properties |-> <<Entry(KeyA, Str(<<"1">>))>>, propertiesOrder |-> 1],
    [content |-> Join(<<LineLink, LineA, LineB>>),
     properties |-> <<Entry(KeyA, Str(<<"1">>)), Entry(KeyB, Str(<<"2">>))>>,
     propertiesOrder |-> 2],
    [content |-> Join(<<LineTitle, LineA, LineBlank, LineB>>),
     properties |-> <<Entry(KeyA, Str(<<"1">>))>>, propertiesOrder |-> 1],
    [content |-> Join(<<LineTitle, LineA, LineB, LineX>>),
     properties |-> <<Entry(KeyA, Str(<<"1">>)), Entry(KeyB, Str(<<"2">>))>>,
     propertiesOrder |-> 2] }

\* the pages a reference of the source block resolves to
RefName(n) == IF n % 2 = 1 THEN <<"x">> ELSE <<"y">>

PageIds == {"p1", "p2", "f1", "n1", "n2"}
EmptyBlock == [content |-> <<>>, pre |-> FALSE, properties |-> <<>>]
NoBlocks == [b \in PageIds |-> EmptyBlock]
LineTagsZ == <<"t", "a", "g", "s", ":", ":", " ", "z">>
PreBlock == [content |-> LineTagsZ, pre |-> TRUE,
             properties |-> <<Entry(KeyTags, Arr(<<Str(<<"z">>)>>))>>]
TextBlock == [content |-> <<"h">>, pre |-> FALSE, properties |-> <<>>]

\* the page of the conversion as the store holds it before: absent, without
\* blocks, or with blocks of which the first may be a page properties block
\* and the last may be empty
PageFixtures ==
  { [page |-> [exists |-> FALSE, tree |-> <<>>, properties |-> <<>>], blocks |-> NoBlocks],
    [page |-> [exists |-> TRUE, tree |-> <<>>, properties |-> <<>>], blocks |-> NoBlocks],
    [page |-> [exists |-> TRUE, tree |-> <<"p1">>,
               properties |-> <<Entry(KeyTags, Arr(<<Str(<<"z">>)>>))>>],
     blocks |-> [NoBlocks EXCEPT !["p1"] = PreBlock]],
    [page |-> [exists |-> TRUE, tree |-> <<"p1">>, properties |-> <<>>],
     blocks |-> [NoBlocks EXCEPT !["p1"] = TextBlock]],
    [page |-> [exists |-> TRUE, tree |-> <<"p1", "p2">>, properties |-> <<>>],
     blocks |-> [NoBlocks EXCEPT !["p1"] = TextBlock]] }

SrcStates ==
  { [exists |-> TRUE,
     content |-> f.content,
     properties |-> IF c THEN Append(f.properties, Entry(KeyCollapsed, True)) ELSE f.properties,
     propertiesOrder |-> f.propertiesOrder,
     children |-> SubSeq(ChildIds, 1, n),
     refs |-> [r \in 1..(f.propertiesOrder + x) |-> RefName(r)]] :
       f \in SrcFixtures, c \in BOOLEAN, n \in 0..MaxChildren, x \in 0..MaxExtraRefs }
  \cup {NullSrc}

Call(op, id, text, target, ok) ==
  [op |-> op, id |-> id, text |-> text, target |-> target, ok |-> ok]

MainInit ==
  /\ pc = "getBlock"
  /\ settings \in [allowWithoutChildren : BOOLEAN,
                   moveBlockPropertiesToPage : BOOLEAN,
                   createPageTags : BOOLEAN]
  /\ stSrc \in SrcStates
  /\ \E f \in PageFixtures : stPage = f.page /\ stBlock = f.blocks
  /\ src0 = stSrc
  /\ srcBlock = NullSrc
  /\ allLines = <<>>
  /\ firstLine = <<>>
  /\ pageBlock = NoPageBlock
  /\ propsCount = 0
  /\ newBlockContent = <<>>
  /\ targetBlock = NoTarget
  /\ targetUUID = NoBlock
  /\ loopI = 0
  /\ pageProps = <<>>
  /\ tags = <<>>
  /\ refsPending = {}
  /\ waiter = [last |-> 0, rejected |-> FALSE, accepted |-> FALSE]
  /\ calls = <<>>
  /\ msg = ""
  \* the harnesses are idle
  /\ scanPc = "idle"
  /\ scanBlock = [content |-> <<>>, properties |-> <<>>]
  /\ scanFirst = 0
  /\ scanLast = 0
  /\ scanProps = <<>>
  /\ scanLooked = <<>>
  /\ scanKept = <<>>
  /\ scanText = <<>>
  /\ scanAgain = <<>>
  /\ mergePc = "idle"
  /\ mergeTarget = <<>>
  /\ mergeSources = <<>>
  /\ mergeAll = <<>>
  /\ mergeAcc = <<>>
  /\ mergePrev = <<>>
  /\ mergeIdx = 0
  /\ mergeHeap = <<>>
  /\ mergeRoots = <<>>

\* /^\[\[(.*)\]\]$/.test(s), for s without a line break
pageRegxTest(s) ==
  /\ Len(s) >= 4
  /\ s[1] = "[" /\ s[2] = "["
  /\ s[Len(s) - 1] = "]" /\ s[Len(s)] = "]"

\* firstLine.replace(pageRegx, "$1")
PageName(line) == IF pageRegxTest(line) THEN SubSeq(line, 3, Len(line) - 2) ELSE line

\* lines 57-60, for the local source block b
NewBlockContent(b) ==
  IF ~pageRegxTest(firstLine)
  THEN ReplaceFirst(b.content, firstLine, <<"[", "[">> \o firstLine \o <<"]", "]">>)
  ELSE <<>>

\* { isPageBlock: true, before: true }: the block goes before the first block
InsertFirst(tree, id) == <<id>> \o tree

\* moveBlock(id, target, { children: false, before: false }): id becomes the
\* next sibling after target
InsertAfter(tree, target, id) ==
  LET p == CHOOSE q \in 1..Len(tree) : tree[q] = target
  IN SubSeq(tree, 1, p) \o <<id>> \o SubSeq(tree, p + 1, Len(tree))

Without(seq, id) == SelectSeq(seq, LAMBDA e : e # id)

\* the pc after pageBlock is settled (line 30)
PcAfterPageBlockSkip(pb) == "getLastBlock"
PcAfterPageBlock(pb) ==
  IF settings.moveBlockPropertiesToPage /\ pb.uuid # NoBlock THEN "updatePageBlock"
  ELSE "getLastBlock"

\* the pc after the relocation loop (lines 82-106), for local source block b
PcAfterTags(content) == IF content # <<>> THEN "updateSrcLink" ELSE "exitEditingMode"
PcAfterAnchor(content) ==
  IF settings.createPageTags /\ pageBlock.uuid # NoBlock THEN "tagsGetPage"
  ELSE PcAfterTags(content)
PcAfterLoopRemove(target, content) == "removeBlock"
PcAfterLoop(target, content) ==
  IF target.content = <<>> THEN "removeBlock" ELSE PcAfterAnchor(content)
\* the pc once targetBlock is known (lines 64-68)
PcAfterTarget(target, children, content) ==
  IF target.uuid = NoBlock THEN "done"
  ELSE IF 0 < Len(children) THEN "moveBlock"
  ELSE PcAfterLoop(target, content)

\* line 6-16: getBlock and the early return
GetBlock ==
  /\ pc = "getBlock"
  /\ srcBlock' = stSrc
  /\ IF ~stSrc.exists \/ (~settings.allowWithoutChildren /\ Len(stSrc.children) = 0)
     THEN /\ pc' = "done"
          /\ UNCHANGED <<allLines, firstLine>>
     ELSE /\ allLines' = Split(stSrc.content)
          /\ firstLine' = Trim(Split(stSrc.content)[1])
          /\ pc' = "getPage"
  /\ UNCHANGED <<settings, stSrc, stPage, stBlock, src0, pageBlock, propsCount,
                 newBlockContent, targetBlock, targetUUID, loopI, pageProps, tags, waiter,
                 calls, msg, refsPending, mainOthers>>

\* createPageIfNotExist: getPage (line 171)
GetPage ==
  /\ pc = "getPage"
  /\ pc' = IF ~stPage.exists THEN "createPage" ELSE "pageLastBlock"
  /\ UNCHANGED <<settings, stSrc, stPage, stBlock, src0, srcBlock, allLines, firstLine,
                 pageBlock, propsCount, newBlockContent, targetBlock, targetUUID, loopI,
                 pageProps, tags, waiter, calls, msg, refsPending, mainOthers>>

\* createPageIfNotExist: getLastBlock (line 183)
PageLastBlock ==
  /\ pc = "pageLastBlock"
  /\ pc' = IF stPage.tree = <<>> THEN "deletePage" ELSE "getFirstAndLastBlock"
  /\ UNCHANGED <<settings, stSrc, stPage, stBlock, src0, srcBlock, allLines, firstLine,
                 pageBlock, propsCount, newBlockContent, targetBlock, targetUUID, loopI,
                 pageProps, tags, waiter, calls, msg, refsPending, mainOthers>>

\* createPageIfNotExist: deletePage (line 186)
DeletePage ==
  /\ pc = "deletePage"
  /\ stPage' = [exists |-> FALSE, tree |-> <<>>, properties |-> <<>>]
  /\ calls' = Append(calls, Call("deletePage", NoBlock, <<>>, NoBlock, TRUE))
  /\ pc' = "createPage"
  /\ UNCHANGED <<settings, stSrc, stBlock, src0, srcBlock, allLines, firstLine,
                 pageBlock, propsCount, newBlockContent, targetBlock, targetUUID, loopI,
                 pageProps, tags, waiter, msg, refsPending, mainOthers>>

\* createPageIfNotExist: createPage (lines 173, 187); the store may or may not
\* give the new page a first block
CreatePage ==
  /\ pc = "createPage"
  /\ \E tree \in {<<>>, <<"f1">>} :
       stPage' = [exists |-> TRUE, tree |-> tree, properties |-> <<>>]
  /\ stBlock' = [stBlock EXCEPT !["f1"] = EmptyBlock]
  /\ calls' = Append(calls, Call("createPage", NoBlock, <<>>, NoBlock, TRUE))
  /\ pc' = "getFirstAndLastBlock"
  /\ UNCHANGED <<settings, stSrc, src0, srcBlock, allLines, firstLine,
                 pageBlock, propsCount, newBlockContent, targetBlock, targetUUID, loopI,
                 pageProps, tags, waiter, msg, refsPending, mainOthers>>

\* lines 19-27: getFirstAndLastBlock, and pageBlock when the first block is a
\* page properties block
GetFirstAndLastBlock ==
  /\ pc = "getFirstAndLastBlock"
  /\ LET firstBlock == IF stPage.tree = <<>> THEN NoBlock ELSE stPage.tree[1]
         isPre == firstBlock # NoBlock /\ stBlock[firstBlock].pre
         pb == [uuid |-> firstBlock,
                content |-> stBlock[firstBlock].content,
                properties |-> stBlock[firstBlock].properties]
     IN IF settings.moveBlockPropertiesToPage \/ settings.createPageTags
        THEN IF isPre
             THEN pageBlock' = pb /\ pc' = PcAfterPageBlock(pb)
             ELSE pageBlock' = pageBlock /\ pc' = "insertBlock"
        ELSE pageBlock' = pageBlock /\ pc' = PcAfterPageBlock(NoPageBlock)
  /\ UNCHANGED <<settings, stSrc, stPage, stBlock, src0, srcBlock, allLines, firstLine,
                 propsCount, newBlockContent, targetBlock, targetUUID, loopI,
                 pageProps, tags, waiter, calls, msg, refsPending, mainOthers>>

\* line 26: insertBlock, which gives the new block or null
InsertBlock ==
  /\ pc = "insertBlock"
  /\ \/ /\ stPage' = [stPage EXCEPT !.tree = InsertFirst(stPage.tree, "n1")]
        /\ stBlock' = [stBlock EXCEPT !["n1"] = EmptyBlock]
        /\ pageBlock' = [uuid |-> "n1", content |-> <<>>, properties |-> <<>>]
        /\ calls' = Append(calls, Call("insertBlock", "n1", <<>>, NoBlock, TRUE))
        /\ pc' = PcAfterPageBlock(pageBlock')
     \/ /\ pageBlock' = NoPageBlock
        /\ calls' = Append(calls, Call("insertBlock", NoBlock, <<>>, NoBlock, FALSE))
        /\ pc' = PcAfterPageBlock(NoPageBlock)
        /\ UNCHANGED <<stPage, stBlock>>
  /\ UNCHANGED <<settings, stSrc, src0, srcBlock, allLines, firstLine,
                 propsCount, newBlockContent, targetBlock, targetUUID, loopI,
                 pageProps, tags, waiter, msg, refsPending, mainOthers>>

\* line 36: mergeObjects(mergeObjects({}, pageProps), blockProps)
NewPageProperties(pageProperties, blockProps) ==
  Apply(mergeObjects(<<>>, <<Obj(pageProperties)>>),
        LAMBDA merged : mergeObjects(merged, <<Obj(blockProps)>>))

\* lines 33-37: the text of the page properties block
NewPagePropertiesString(src, page) ==
  Apply(getPropertiesFromBlockContent(src), LAMBDA blockProps :
    Apply(getPropertiesFromBlockContent(page), LAMBDA pageProperties :
      Apply(NewPageProperties(pageProperties, blockProps), formatPropertiesString)))

\* lines 32-40: updateBlock of the page properties block
UpdatePageBlock ==
  /\ pc = "updatePageBlock"
  /\ propsCount' = srcBlock.propertiesOrder
  /\ LET text == NewPagePropertiesString(srcBlock, pageBlock)
     IN /\ stBlock' = [stBlock EXCEPT ![pageBlock.uuid].content = text]
        /\ calls' = Append(calls, Call("updateBlock", pageBlock.uuid, text, NoBlock, TRUE))
  /\ pc' = "updateSrcBlock"
  /\ UNCHANGED <<settings, stSrc, stPage, src0, srcBlock, allLines, firstLine, pageBlock,
                 newBlockContent, targetBlock, targetUUID, loopI,
                 pageProps, tags, waiter, msg, refsPending, mainOthers>>

\* the properties the store resolves for the source block once its text has
\* no property line left: the collapsed state only
AfterRemoval(properties) == SelectSeq(properties, LAMBDA e : e.k = KeyCollapsed)

\* line 41: updateBlock of the source block with its properties removed
UpdateSrcBlock ==
  /\ pc = "updateSrcBlock"
  /\ LET text == Join(removeProperties(allLines))
     IN /\ stSrc' = [stSrc EXCEPT !.content = text,
                                  !.properties = AfterRemoval(stSrc.properties),
                                  !.propertiesOrder = 0]
        /\ calls' = Append(calls, Call("updateBlock", SrcId, text, NoBlock, TRUE))
  /\ pc' = "poll"
  /\ UNCHANGED <<settings, stPage, stBlock, src0, srcBlock, allLines, firstLine, pageBlock,
                 propsCount, newBlockContent, targetBlock, targetUUID, loopI,
                 pageProps, tags, waiter, msg, refsPending, mainOthers>>

\* line 47: the waiter's test on a re-fetched block
AcceptsNever(updatedSrcBlock, local, count) == FALSE
AcceptsAnyDecrease(updatedSrcBlock, local, count) ==
  Len(updatedSrcBlock.refs) <= Len(local.refs)
Accepts(updatedSrcBlock, local, count) ==
  Len(updatedSrcBlock.refs) <= Len(local.refs) - count

\* lines 44-51: one poll of the waiter
Poll ==
  /\ pc = "poll"
  /\ IF Accepts(stSrc, srcBlock, propsCount)
     THEN /\ srcBlock' = stSrc
          /\ waiter' = [waiter EXCEPT !.last = Len(stSrc.refs), !.accepted = TRUE]
          /\ pc' = "getLastBlock"
     ELSE /\ waiter' = [waiter EXCEPT !.last = Len(stSrc.refs), !.rejected = TRUE]
          /\ pc' = "sleep"
          /\ UNCHANGED srcBlock
  /\ UNCHANGED <<settings, stSrc, stPage, stBlock, src0, allLines, firstLine, pageBlock,
                 propsCount, newBlockContent, targetBlock, targetUUID, loopI,
                 pageProps, tags, calls, msg, refsPending, mainOthers>>

\* line 53: the 50 ms timer
Sleep ==
  /\ pc = "sleep"
  /\ pc' = "poll"
  /\ UNCHANGED <<settings, stSrc, stPage, stBlock, src0, srcBlock, allLines, firstLine,
                 pageBlock, propsCount, newBlockContent, targetBlock, targetUUID, loopI,
                 pageProps, tags, waiter, calls, msg, refsPending, mainOthers>>

\* the store brings the source block's references up to date, some time after
\* its text was updated
Reindex ==
  /\ pc \in {"poll", "sleep"}
  /\ \E n \in 0..(Len(stSrc.refs) - 1) :
       stSrc' = [stSrc EXCEPT !.refs = SubSeq(stSrc.refs, 1, n)]
  /\ UNCHANGED <<pc, settings, stPage, stBlock, src0, srcBlock, allLines, firstLine,
                 pageBlock, propsCount, newBlockContent, targetBlock, targetUUID, loopI,
                 pageProps, tags, waiter, calls, msg, refsPending, mainOthers>>

\* lines 57-68: newBlockContent, getLastBlock, and the start of the loop
GetLastBlock ==
  /\ pc = "getLastBlock"
  /\ newBlockContent' = NewBlockContent(srcBlock)
  /\ IF stPage.tree = <<>>
     THEN /\ pc' = "appendBlockInPage"
          /\ UNCHANGED <<targetBlock, targetUUID>>
     ELSE LET last == stPage.tree[Len(stPage.tree)]
              target == [uuid |-> last, content |-> stBlock[last].content]
          IN /\ targetBlock' = target
             /\ targetUUID' = last
             /\ pc' = PcAfterTarget(target, srcBlock.children, newBlockContent')
  /\ loopI' = 0
  /\ UNCHANGED <<settings, stSrc, stPage, stBlock, src0, srcBlock, allLines, firstLine,
                 pageBlock, propsCount, pageProps, tags, waiter, calls, msg, refsPending, mainOthers>>

\* line 63: appendBlockInPage, which gives the new block or null
AppendBlockInPage ==
  /\ pc = "appendBlockInPage"
  /\ \/ /\ stPage' = [stPage EXCEPT !.tree = Append(stPage.tree, "n2")]
        /\ stBlock' = [stBlock EXCEPT !["n2"] = EmptyBlock]
        /\ targetBlock' = [uuid |-> "n2", content |-> <<>>]
        /\ targetUUID' = "n2"
        /\ calls' = Append(calls, Call("appendBlockInPage", "n2", <<>>, NoBlock, TRUE))
        /\ pc' = PcAfterTarget(targetBlock', srcBlock.children, newBlockContent)
     \/ /\ calls' = Append(calls, Call("appendBlockInPage", NoBlock, <<>>, NoBlock, FALSE))
        /\ pc' = PcAfterTarget(NoTarget, srcBlock.children, newBlockContent)
        /\ UNCHANGED <<stPage, stBlock, targetBlock, targetUUID>>
  /\ UNCHANGED <<settings, stSrc, src0, srcBlock, allLines, firstLine, pageBlock,
                 propsCount, newBlockContent, loopI, pageProps, tags, waiter, msg, refsPending, mainOthers>>

\* line 74: the anchor of the next move after children[i] was moved
NextTargetKeep(target, child) == target
NextTarget(target, child) == child

\* lines 75-79: where main() goes when moveBlock throws
PcAfterMoveErrorContinue(children, n) == IF n + 1 < Len(children) THEN "moveBlock" ELSE "done"
PcAfterMoveError(children, n) == "done"

\* lines 68-80: one turn of the loop, moveBlock succeeding or throwing
MoveBlock ==
  /\ pc = "moveBlock"
  /\ LET children == srcBlock.children
         child == children[loopI + 1]
     IN \/ /\ stSrc' = [stSrc EXCEPT !.children = Without(stSrc.children, child)]
           /\ stPage' = [stPage EXCEPT
                           !.tree = InsertAfter(Without(stPage.tree, child), targetUUID, child)]
           /\ calls' = Append(calls, Call("moveBlock", child, <<>>, targetUUID, TRUE))
           /\ targetUUID' = NextTarget(targetUUID, child)
           /\ loopI' = loopI + 1
           /\ pc' = IF loopI + 1 < Len(children) THEN "moveBlock"
                    ELSE PcAfterLoop(targetBlock, newBlockContent)
           /\ UNCHANGED msg
        \/ /\ calls' = Append(calls, Call("moveBlock", child, <<>>, targetUUID, FALSE))
           /\ msg' = "move block error"
           /\ pc' = PcAfterMoveError(children, loopI)
           /\ loopI' = IF pc' = "done" THEN loopI ELSE loopI + 1
           /\ UNCHANGED <<stSrc, stPage, targetUUID>>
  /\ UNCHANGED <<settings, stBlock, src0, srcBlock, allLines, firstLine, pageBlock,
                 propsCount, newBlockContent, targetBlock, pageProps, tags, waiter, refsPending,
                 mainOthers>>

\* line 84: removeBlock of the empty anchor
RemoveBlock ==
  /\ pc = "removeBlock"
  /\ stPage' = [stPage EXCEPT !.tree = Without(stPage.tree, targetBlock.uuid)]
  /\ calls' = Append(calls, Call("removeBlock", targetBlock.uuid, <<>>, NoBlock, TRUE))
  /\ pc' = PcAfterAnchor(newBlockContent)
  /\ UNCHANGED <<settings, stSrc, stBlock, src0, srcBlock, allLines, firstLine, pageBlock,
                 propsCount, newBlockContent, targetBlock, targetUUID, loopI,
                 pageProps, tags, waiter, msg, refsPending, mainOthers>>

\* lines 89-92: getPage returns the page's properties; Promise.all then maps
\* every reference of the source block to a getPage call, all issued at once
TagsGetPage ==
  /\ pc = "tagsGetPage"
  /\ pageProps' = stPage.properties
  /\ refsPending' = 1..Len(srcBlock.refs)
  /\ pc' = "tagsGetRefs"
  /\ UNCHANGED <<settings, stSrc, stPage, stBlock, src0, srcBlock, allLines, firstLine,
                 pageBlock, propsCount, newBlockContent, targetBlock, targetUUID, loopI,
                 tags, waiter, calls, msg, mainOthers>>

\* line 92: one of the getPage calls of Promise.all returns, in any order
TagsRefReturned ==
  /\ pc = "tagsGetRefs"
  /\ \E r \in refsPending : refsPending' = refsPending \ {r}
  /\ UNCHANGED <<pc, settings, stSrc, stPage, stBlock, src0, srcBlock, allLines, firstLine,
                 pageBlock, propsCount, newBlockContent, targetBlock, targetUUID, loopI,
                 pageProps, tags, waiter, calls, msg, mainOthers>>

\* lines 92-95: Promise.all resolves once every getPage has returned; the
\* names of the pages without duplicates
TagsGetRefs ==
  /\ pc = "tagsGetRefs"
  /\ refsPending = {}
  /\ tags' = Dedup(srcBlock.refs)
  /\ pc' = "tagsUpdateBlock"
  /\ UNCHANGED <<settings, stSrc, stPage, stBlock, src0, srcBlock, allLines, firstLine,
                 pageBlock, propsCount, newBlockContent, targetBlock, targetUUID, loopI,
                 pageProps, refsPending, waiter, calls, msg, mainOthers>>

\* lines 97-98: the text of the page properties block with the tags
TagsPropsString(props, names) ==
  formatPropertiesString(
    mergeObjects(<<>>, <<Obj(props),
                         Obj(<<Entry(KeyTags, Arr([n \in 1..Len(names) |-> Str(names[n])]))>>)>>))

\* line 101: updateBlock of the page properties block with the tags
TagsUpdateBlock ==
  /\ pc = "tagsUpdateBlock"
  /\ LET text == TagsPropsString(pageProps, tags)
     IN /\ stBlock' = [stBlock EXCEPT ![pageBlock.uuid].content = text]
        /\ calls' = Append(calls, Call("updateBlock", pageBlock.uuid, text, NoBlock, TRUE))
  /\ pc' = PcAfterTags(newBlockContent)
  /\ UNCHANGED <<settings, stSrc, stPage, src0, srcBlock, allLines, firstLine, pageBlock,
                 propsCount, newBlockContent, targetBlock, targetUUID, loopI,
                 pageProps, tags, waiter, msg, refsPending, mainOthers>>

\* line 105: updateBlock of the source block into a page link
UpdateSrcLink ==
  /\ pc = "updateSrcLink"
  /\ stSrc' = [stSrc EXCEPT !.content = newBlockContent]
  /\ calls' = Append(calls, Call("updateBlock", SrcId, newBlockContent, NoBlock, TRUE))
  /\ pc' = "exitEditingMode"
  /\ UNCHANGED <<settings, stPage, stBlock, src0, srcBlock, allLines, firstLine, pageBlock,
                 propsCount, newBlockContent, targetBlock, targetUUID, loopI,
                 pageProps, tags, waiter, msg, refsPending, mainOthers>>

\* lines 108-110: exitEditingMode, then the test of srcBlock.properties.collapsed
ExitEditingMode ==
  /\ pc = "exitEditingMode"
  /\ pc' = IF Truthy(ObjGet(srcBlock.properties, KeyCollapsed))
           THEN "removeBlockProperty" ELSE "done"
  /\ UNCHANGED <<settings, stSrc, stPage, stBlock, src0, srcBlock, allLines, firstLine,
                 pageBlock, propsCount, newBlockContent, targetBlock, targetUUID, loopI,
                 pageProps, tags, waiter, calls, msg, refsPending, mainOthers>>

\* line 111: removeBlockProperty(srcBlock.uuid, "collapsed")
RemoveBlockProperty ==
  /\ pc = "removeBlockProperty"
  /\ stSrc' = [stSrc EXCEPT !.properties = SelectSeq(stSrc.properties,
                                              LAMBDA e : e.k # KeyCollapsed)]
  /\ calls' = Append(calls, Call("removeBlockProperty", SrcId, KeyCollapsed, NoBlock, TRUE))
  /\ pc' = "done"
  /\ UNCHANGED <<settings, stPage, stBlock, src0, srcBlock, allLines, firstLine, pageBlock,
                 propsCount, newBlockContent, targetBlock, targetUUID, loopI,
                 pageProps, tags, waiter, msg, refsPending, mainOthers>>

\* the steps of main()
MainStep ==
  \/ GetBlock \/ GetPage \/ PageLastBlock \/ DeletePage \/ CreatePage
  \/ GetFirstAndLastBlock \/ InsertBlock \/ UpdatePageBlock \/ UpdateSrcBlock
  \/ Poll \/ Sleep \/ GetLastBlock \/ AppendBlockInPage \/ MoveBlock \/ RemoveBlock
  \/ TagsGetPage \/ TagsRefReturned \/ TagsGetRefs \/ TagsUpdateBlock \/ UpdateSrcLink
  \/ ExitEditingMode \/ RemoveBlockProperty

Next == MainStep \/ Reindex

(***************************************************************************)
(* Claims about the conversion.                                            *)
(***************************************************************************)
InSeq(e, seq) == \E n \in 1..Len(seq) : seq[n] = e
MoveCalls == SelectSeq(calls, LAMBDA c : c.op = "moveBlock")
SrcWrites == SelectSeq(calls, LAMBDA c : c.op = "updateBlock" /\ c.id = SrcId)
PageBlockWrites ==
  SelectSeq(calls, LAMBDA c : c.op = "updateBlock" /\ c.id # SrcId)

\* the relocation loop ran over every child and no move failed
LoopCompleted ==
  /\ targetBlock.uuid # NoBlock
  /\ msg = ""
  /\ loopI = Len(srcBlock.children)
  /\ pc \in {"removeBlock", "tagsGetPage", "tagsGetRefs", "tagsUpdateBlock",
             "updateSrcLink", "exitEditingMode", "removeBlockProperty", "done"}

\* C1: when every moveBlock call succeeds, the i-th call moves child i as the
\* next sibling after child i-1 (after the anchor for the first), and after the
\* loop the siblings following the anchor are the children in their original
\* order (in the anchor's place once an empty anchor has been removed).
C1_RelocationOrder ==
  LoopCompleted =>
    LET ch == srcBlock.children
        n == Len(ch)
        anchor == targetBlock.uuid
        tree == stPage.tree
    IN /\ Len(MoveCalls) = n
       /\ \A k \in 1..n :
            /\ MoveCalls[k].ok
            /\ MoveCalls[k].id = ch[k]
            /\ MoveCalls[k].target = (IF k = 1 THEN anchor ELSE ch[k - 1])
       /\ InSeq(anchor, tree) =>
            \E q \in 1..Len(tree) :
              /\ tree[q] = anchor
              /\ q + n <= Len(tree)
              /\ SubSeq(tree, q + 1, q + n) = ch
       /\ ~InSeq(anchor, tree) =>
            /\ Len(tree) >= n
            /\ SubSeq(tree, Len(tree) - n + 1, Len(tree)) = ch

\* a completed relocation of at least two children, the anchor still in place
C1_SeveralChildrenMoved ==
  /\ LoopCompleted
  /\ Len(srcBlock.children) >= 2
  /\ InSeq(targetBlock.uuid, stPage.tree)

\* C2: when the move of a child fails, a "move block error" message is shown
\* and the conversion returns: the failed move is the last store call, the
\* children moved before stay after the anchor, and the texts written before
\* to the page properties block and the source block stay.
C2_RelocationFailure ==
  msg # "" =>
    LET ch == srcBlock.children
        tree == stPage.tree
    IN /\ msg = "move block error"
       /\ pc = "done"
       /\ calls # <<>>
       /\ calls[Len(calls)] = Call("moveBlock", ch[loopI + 1], <<>>, targetUUID, FALSE)
       /\ Len(MoveCalls) = loopI + 1
       /\ \A n \in 1..Len(calls) : calls[n].op \notin {"removeBlock", "removeBlockProperty"}
       /\ \E q \in 1..Len(tree) :
            /\ tree[q] = targetBlock.uuid
            /\ SubSeq(tree, q + 1, q + loopI) = SubSeq(ch, 1, loopI)
       /\ \A n \in (loopI + 1)..Len(ch) : ~InSeq(ch[n], tree) /\ InSeq(ch[n], stSrc.children)
       /\ Len(SrcWrites) <= 1
       /\ Len(PageBlockWrites) <= 1
       /\ SrcWrites # <<>> => stSrc.content = SrcWrites[1].text
       /\ PageBlockWrites # <<>> => stBlock[pageBlock.uuid].content = PageBlockWrites[1].text

\* a move failed after an earlier one succeeded, with children left to move
\* and the properties already written
C2_FailedMidway ==
  /\ msg # ""
  /\ loopI >= 1
  /\ loopI + 1 < Len(srcBlock.children)
  /\ SrcWrites # <<>>
  /\ PageBlockWrites # <<>>

\* C3: with moveBlockPropertiesToPage, every property key whose line the
\* conversion removes from the source block's text is the key of a property
\* line of the text written to the page properties block.
C3_PropertyPreservation ==
  pc = "poll" =>
    \A n \in 1..Len(allLines) :
      (IsPropertyLine(allLines[n]) /\ ~InSeq(allLines[n], Split(stSrc.content))) =>
        \E m \in 1..Len(Split(stBlock[pageBlock.uuid].content)) :
          /\ IsPropertyLine(Split(stBlock[pageBlock.uuid].content)[m])
          /\ propertyLineRegex(Split(stBlock[pageBlock.uuid].content)[m]).key
               = propertyLineRegex(allLines[n]).key

\* both texts written, for a source block with two property lines
C3_PropertiesMoved ==
  /\ pc = "poll"
  /\ Cardinality({n \in 1..Len(allLines) : IsPropertyLine(allLines[n])}) >= 2

\* the reference count and the property count before the mutation
R0 == Len(src0.refs)
K == src0.propertiesOrder

\* C4: the waiter stops at the first poll whose re-fetched reference count is
\* <= R0 - K, and never accepts (copies into the local source block) a
\* snapshot whose reference count is > R0 - K.
C4_WaiterAcceptance ==
  /\ pc = "sleep" => (waiter.rejected /\ ~waiter.accepted /\ waiter.last > R0 - K)
  /\ waiter.accepted =>
       /\ waiter.last <= R0 - K
       /\ Len(srcBlock.refs) = waiter.last
       /\ pc \notin {"poll", "sleep"}
  /\ (waiter.rejected /\ ~waiter.accepted) => srcBlock = src0

\* the waiter accepted after having rejected an earlier poll
C4_AcceptedAfterRejection ==
  /\ waiter.accepted
  /\ waiter.rejected
  /\ K >= 1

\* C5: the wait never loops forever, so every conversion eventually ends.
C5_WaiterTerminates == <>(pc = "done")

\* the store calls that changed the document
Writes == SelectSeq(calls, LAMBDA c : c.ok)

\* main() returned because getLastBlock and appendBlockInPage both gave null
TargetAbsent ==
  /\ pc = "done"
  /\ srcBlock.exists
  /\ calls # <<>>
  /\ calls[Len(calls)] = Call("appendBlockInPage", NoBlock, <<>>, NoBlock, FALSE)

\* C12: when the source block is absent, or the target block (the page's
\* last block or the appended placeholder) is absent, the conversion ends
\* without any write: no page created or deleted, no block inserted, updated,
\* moved or removed.
C12_NotFound ==
  ((pc = "done" /\ ~srcBlock.exists) \/ TargetAbsent) => Writes = <<>>

\* the part of C12 the code satisfies: an absent source block
C12_SourceAbsent ==
  (pc = "done" /\ ~srcBlock.exists) => calls = <<>>

\* main() returned for an absent target after it had created the page
C12_TargetAbsentAfterCreate ==
  /\ TargetAbsent
  /\ \E n \in 1..Len(calls) : calls[n].op = "createPage"
\* line 77: what logseq.App.showMsg is given when a move fails, the only
\* report main() makes to the user; main() itself returns undefined
ShownParts == IF msg = "" THEN <<>> ELSE <<msg, "error">>

\* the child whose move failed
FailedChild == srcBlock.children[loopI + 1]

\* C13: when the move of a child fails, the failure reported identifies that
\* child.
C13_FailureNamesChild ==
  msg # "" => InSeq(FailedChild, ShownParts)

\* a failed move of the second child
C13_SecondChildFailed ==
  /\ msg # ""
  /\ FailedChild = ChildIds[2]
\* position in calls of the first call satisfying P, 0 if none
FirstCall(P(_)) ==
  IF \E n \in 1..Len(calls) : P(calls[n])
  THEN CHOOSE n \in 1..Len(calls) : P(calls[n]) /\ \A q \in 1..(n - 1) : ~P(calls[q])
  ELSE 0

IsPageBlockWrite(c) == c.op = "updateBlock" /\ c.id # SrcId
IsSrcWrite(c) == c.op = "updateBlock" /\ c.id = SrcId
\* the rewrite of the source block into a page link (line 105)
IsLinkWrite(c) == IsSrcWrite(c) /\ newBlockContent # <<>> /\ c.text = newBlockContent
IsMove(c) == c.op = "moveBlock"

\* moveBlockPropertiesToPage is on and a page properties block is at hand
PropertyStep == settings.moveBlockPropertiesToPage /\ pageBlock.uuid # NoBlock
Polled == waiter.rejected \/ waiter.accepted

\* C14: with moveBlockPropertiesToPage on and a page properties block at
\* hand, the page properties write comes before the source text update, both
\* come before the first poll, and no moveBlock is issued before the waiter
\* has accepted; the source block is rewritten into a page link only after
\* every child was moved successfully.
C14_PipelineOrder ==
  /\ PropertyStep =>
       /\ FirstCall(IsSrcWrite) # 0 =>
            (FirstCall(IsPageBlockWrite) # 0 /\ FirstCall(IsPageBlockWrite) < FirstCall(IsSrcWrite))
       /\ Polled => FirstCall(IsSrcWrite) # 0
       /\ FirstCall(IsMove) # 0 =>
            (waiter.accepted /\ FirstCall(IsSrcWrite) # 0
               /\ FirstCall(IsSrcWrite) < FirstCall(IsMove))
  /\ FirstCall(IsLinkWrite) # 0 =>
       /\ Len(MoveCalls) = Len(srcBlock.children)
       /\ \A n \in 1..Len(calls) :
            IsMove(calls[n]) => (calls[n].ok /\ n < FirstCall(IsLinkWrite))

\* a finished conversion that wrote the properties, had a poll rejected and
\* a later one accepted, moved two children or more and wrote the link
C14_FullPipeline ==
  /\ pc = "done"
  /\ PropertyStep
  /\ waiter.rejected /\ waiter.accepted
  /\ Len(MoveCalls) >= 2
  /\ FirstCall(IsLinkWrite) # 0
\* the store calls main() has issued that have not returned: pc names the
\* call main() awaits, except at the timer, at the end, and at line 92
Outstanding ==
  CASE pc = "tagsGetRefs" -> Cardinality(refsPending)
    [] pc \in {"sleep", "done", "idle"} -> 0
    [] OTHER -> 1

\* C15: at most one store call is outstanding at any time, under every
\* combination of settings.
C15_NoFanOut == Outstanding <= 1

\* the getPage calls of two references are outstanding together
C15_TwoOutstanding ==
  /\ pc = "tagsGetRefs"
  /\ Cardinality(refsPending) >= 2

\* the part of C15 the code satisfies: outside the page-tags step a single
\* call is outstanding
C15_OneCallOutsideTags == pc # "tagsGetRefs" => Outstanding <= 1
RemoveCalls == SelectSeq(calls, LAMBDA c : c.op = "removeBlock")
IsRemove(c) == c.op = "removeBlock"

\* C16: the anchor is removed exactly when the relocation loop completed
\* without a failure and the anchor's content, as fetched before the
\* relocation, is empty, whether or not a child was moved; an anchor with
\* content is never removed, and the removal never precedes a child move.
C16_AnchorDeletion ==
  /\ Len(RemoveCalls) <= 1
  /\ RemoveCalls # <<>> =>
       /\ RemoveCalls[1].id = targetBlock.uuid
       /\ targetBlock.content = <<>>
       /\ msg = ""
       /\ Len(MoveCalls) = Len(srcBlock.children)
       /\ \A n \in 1..Len(calls) :
            IsMove(calls[n]) => (calls[n].ok /\ n < FirstCall(IsRemove))
       /\ ~InSeq(targetBlock.uuid, stPage.tree)
  /\ (LoopCompleted /\ pc # "removeBlock" /\ targetBlock.content = <<>>) => RemoveCalls # <<>>
  /\ (targetBlock.uuid # NoBlock /\ RemoveCalls = <<>>) => InSeq(targetBlock.uuid, stPage.tree)

\* an empty anchor removed although the source block had no child to move
C16_RemovedWithoutMove ==
  /\ RemoveCalls # <<>>
  /\ srcBlock.children = <<>>

\* an empty anchor removed after two children or more were moved
C16_RemovedAfterMoves ==
  /\ RemoveCalls # <<>>
  /\ Len(MoveCalls) >= 2
\* main() is in the polling loop
InWaiter == pc \in {"poll", "sleep"}
\* the store reports for the source block a reference count <= R0 - K
StoreLow == Len(stSrc.refs) <= R0 - K
\* main() is at the relocation loop or past it
AtRelocation ==
  pc \in {"moveBlock", "removeBlock", "tagsGetPage", "tagsGetRefs", "tagsUpdateBlock",
          "updateSrcLink", "exitEditingMode", "removeBlockProperty", "done"}

\* C17: when every store call returns and the store reports a reference
\* count <= R0 - K from some point on, the waiter eventually accepts and the
\* conversion reaches the relocation of the children; while the store
\* reports a count > R0 - K the waiter has not accepted, no child is moved,
\* and a poll is followed by the timer and the timer by a poll.
C17_WaiterProgress ==
  /\ (InWaiter /\ StoreLow) ~> (waiter.accepted /\ AtRelocation)
  /\ []((InWaiter /\ ~StoreLow) => (~waiter.accepted /\ MoveCalls = <<>>))
  /\ [][(InWaiter /\ ~StoreLow /\ pc' # pc) => (InWaiter' /\ pc' \in {"poll", "sleep"})]_vars

\* children were moved after the waiter rejected a poll and accepted a later
\* one
C17_MovedAfterWait ==
  /\ waiter.rejected
  /\ waiter.accepted
  /\ Len(MoveCalls) >= 1

(***************************************************************************)
(* Specifications.                                                         *)
(***************************************************************************)
ScanSpec == ScanInit /\ [][ScanNext]_vars

MergeSpec == MergeInit /\ [][MergeNext]_vars

Spec == MainInit /\ [][Next]_vars

\* the event loop runs every continuation of main() whose store call has
\* returned or whose timer has fired; the store need not reindex
FairSpec == MainInit /\ [][Next]_vars /\ WF_vars(MainStep)

====
